---- MODULE Spec2Model ----
(***************************************************************************)
(* nm-imap-sync: one-shot two-way synchronisation of an IMAP account with  *)
(* a notmuch-indexed Maildir.  The model follows the newest revision of    *)
(* every source file: main (src/main.go:109-200), the push side            *)
(* (src/imap/update.go, src/sync/check.go), the pull side                  *)
(* (src/imap/fetch.go:22-333 and 1052-1204), the sync store                *)
(* (src/sync/message.go:1-161) and the flag translator                     *)
(* (src/unnamed/part_000).                                                 *)
(*                                                                         *)
(* Strings are sequences of atoms.  An atom is a TLA+ string that stands   *)
(* for a run of characters holding no comma, no blank, no backslash and no *)
(* dash; "," " " "\\" and "-" are atoms of their own, so strings.Join,     *)
(* strings.Split, strings.TrimSpace, strings.HasPrefix and flag[0] are      *)
(* computed on the characters that matter to them.  A tag or flag is such  *)
(* a string; <<>> is the empty string.                                     *)
(*                                                                         *)
(* Lists that the code builds by ranging over a Go map (flagSlice,         *)
(* serverFlags, RemovedTags) come out in an unspecified order;  SetToList  *)
(* fixes one.  Every reader of such a list is insensitive to the order:    *)
(* compareTags loads the stored string into a map and the IMAP server      *)
(* treats a flag list as a set.                                            *)
(***************************************************************************)
EXTENDS Naturals, Sequences, FiniteSets, TLC

\* ------------------------------------------------------------------ bounds
MaxRuns == 2
MaxEnv == 2
MaxFaults == 1

\* ------------------------------------------------------------- vocabulary
Folders == {"INBOX", "Work"}
FolderOrder == <<"INBOX", "Work">>
MessageIDs == {"m1", "m2"}

SeenFlag == <<"\\", "Seen">>
AnsweredFlag == <<"\\", "Answered">>
DeletedFlag == <<"\\", "Deleted">>
DraftFlag == <<"\\", "Draft">>
FlaggedFlag == <<"\\", "Flagged">>

TagUnread == <<"unread">>
TagTodo == <<"todo">>
TagMDN == <<"$MDNSent">>
TagInbox == <<"inbox">>

\* ignored_tags of the mailbox configuration
IgnoredTags == {TagMDN}

\* ------------------------------------------------------------ string ops
RECURSIVE Join(_)
Join(list) ==
    IF Len(list) = 0 THEN <<>>
    ELSE IF Len(list) = 1 THEN list[1]
    ELSE list[1] \o <<",">> \o Join(Tail(list))

RECURSIVE SplitFrom(_, _, _)
SplitFrom(s, cur, acc) ==
    IF Len(s) = 0 THEN Append(acc, cur)
    ELSE IF Head(s) = "," THEN SplitFrom(Tail(s), <<>>, Append(acc, cur))
    ELSE SplitFrom(Tail(s), Append(cur, Head(s)), acc)

Split(s) == SplitFrom(s, <<>>, <<>>)

RECURSIVE TrimLeft(_)
TrimLeft(s) == IF Len(s) > 0 /\ Head(s) = " " THEN TrimLeft(Tail(s)) ELSE s

RECURSIVE TrimRight(_)
TrimRight(s) ==
    IF Len(s) > 0 /\ s[Len(s)] = " " THEN TrimRight(SubSeq(s, 1, Len(s) - 1)) ELSE s

TrimSpace(s) == TrimRight(TrimLeft(s))

HasPrefixDash(s) == Len(s) > 0 /\ Head(s) = "-"

RECURSIVE SetToList(_)
SetToList(S) ==
    IF S = {} THEN <<>>
    ELSE LET x == CHOOSE y \in S : TRUE IN <<x>> \o SetToList(S \ {x})

ListToSet(list) == {list[i] : i \in 1..Len(list)}

Max(S) == IF S = {} THEN 0 ELSE CHOOSE x \in S : \A y \in S : y <= x

\* ------------------------------------------------------------------ state
VARIABLES
    folderTags,   \* config folder_tags: folder -> comma-separated string
    srv,          \* server: folder -> set of [uid, mid, flags]
    srvNext,      \* server: folder -> next UID to assign
    srvValidity,  \* server: folder -> UIDVALIDITY
    cur,          \* files in <maildir>/<folder>/cur: [folder, uid, seq, mid]
    idxTags,      \* notmuch index: Message-ID -> set of tags
    idxFiles,     \* notmuch index: the files registered with a message
    messages,     \* sync store table messages: [id, messageid, tags]
    uids,         \* sync store table uids: [message_id, foldername, uidvalidity, uid]
    lastSeen,     \* Handler.cfg.LastSeenUID, in memory
    sidecar,      \* the .imap-uids file
    queue,        \* imapQueue: updates sent and not yet received
    qClosed,      \* imapQueue has been closed
    scanTodo,     \* local scan: files of the maildir still to compare
    pcScan,       \* local-scan goroutine: "off", "scan", "done"
    pcMain,       \* main: "idle", "push", "pull", "fetch", "done", "exit"
    pullTodo,     \* CheckMessages: folders still to pull
    updateList,   \* mailboxFetchMessages: intents still to process
    hwm,          \* mailboxFetchMessages: its local lastSeenUID
    fullScan,     \* the --full-scan flag of the current run
    wire,         \* IMAP commands issued in the current run, in order; the uid
                  \* of an APPEND is the UID the server answered with, 0 if none
    promoted,     \* number of files renamed into cur/ in the current run
    quiet,        \* this run follows a clean run with no change in between
    prevAppend,   \* the run before this one issued an APPEND that the server
                  \* did not answer with the UID of the new message
    okPulls,      \* folders whose pull completed without error in this run
    startCursor,  \* cursor of the folder being pulled, as it was before the pull
    fileSeq,      \* counter behind the unique part of maildir file names
    api,          \* a direct caller of the sync store: its arguments and results
    atStart,      \* the index tags and the sync store as the current run found them
    runs, envCount, faults

vars == <<folderTags, srv, srvNext, srvValidity, cur, idxTags, idxFiles,
          messages, uids, lastSeen, sidecar, queue, qClosed, scanTodo, pcScan,
          pcMain, pullTodo, updateList, hwm, fullScan, wire, promoted, quiet,
          prevAppend, okPulls, startCursor, fileSeq, api, atStart, runs, envCount, faults>>

\* ------------------------------------------------------------- sync store
\* compareTags: the walk over wantedTags, deleting matches from dbMap
RECURSIVE CompareWalk(_, _, _)
CompareWalk(wanted, dbMap, added) ==
    IF Len(wanted) = 0 THEN [added |-> added, dbMap |-> dbMap]
    ELSE LET t == TrimSpace(Head(wanted)) IN
         IF t = <<>> THEN CompareWalk(Tail(wanted), dbMap, added)
         ELSE IF t \in dbMap THEN CompareWalk(Tail(wanted), dbMap \ {t}, added)
         ELSE CompareWalk(Tail(wanted), dbMap, Append(added, t))

DbMap(tags) == {TrimSpace(t) : t \in ListToSet(Split(tags))} \ {<<>>}

compareTags(info, tags, wantedTags) ==
    LET w == CompareWalk(wantedTags, DbMap(tags), <<>>) IN
    [info EXCEPT !.AddedTags = info.AddedTags \o w.added,
                 !.RemovedTags = info.RemovedTags \o SetToList(w.dbMap)]

EmptyInfo ==
    [MessageID |-> "", UIDs |-> <<>>, AddedTags |-> <<>>, RemovedTags |-> <<>>,
     WantedTags |-> <<>>, Created |-> FALSE]

MkUID(folder, validity, uid) ==
    [FolderName |-> folder, UIDValidity |-> validity, UID |-> uid]

\* rows of  messages INNER JOIN uids ON uids.message_id = messages.id
JoinRows(msgs, us) ==
    {r \in [m : msgs, u : us] : r.u.message_id = r.m.id}

CheckTagsUID(msgs, us, folderName, uidValidity, uid, wantedTags) ==
    LET base == [EmptyInfo EXCEPT !.WantedTags = wantedTags,
                                  !.UIDs = <<MkUID(folderName, uidValidity, uid)>>]
        rows == {r \in JoinRows(msgs, us) :
                    /\ r.u.foldername = folderName
                    /\ r.u.uidvalidity = uidValidity
                    /\ r.u.uid = uid}
    IN IF rows = {}
       THEN [base EXCEPT !.Created = TRUE, !.AddedTags = wantedTags]
       ELSE LET r == CHOOSE x \in rows : TRUE IN
            compareTags([base EXCEPT !.MessageID = r.m.messageid],
                        r.m.tags, wantedTags)

CheckTags(msgs, us, folderName, messageid, wantedTags) ==
    LET base == [EmptyInfo EXCEPT !.MessageID = messageid,
                                  !.WantedTags = wantedTags]
        rows == {r \in JoinRows(msgs, us) : r.m.messageid = messageid}
    IN IF rows = {}
       THEN [base EXCEPT !.Created = TRUE, !.AddedTags = wantedTags,
                         !.UIDs = <<MkUID(folderName, 0, 0)>>]
       ELSE LET r == CHOOSE x \in rows : TRUE
                found == SetToList({MkUID(x.u.foldername, x.u.uidvalidity, x.u.uid) :
                                       x \in rows})
            IN compareTags([base EXCEPT !.UIDs = found], r.m.tags, wantedTags)

\* mutant: a row is inserted whether or not the MessageID is recorded
UpsertMessageInsert(msgs, messageid, tagStr) ==
    msgs \cup {[id |-> Max({m.id : m \in msgs}) + 1,
                messageid |-> messageid, tags |-> tagStr]}

\* INSERT INTO messages ... ON CONFLICT(messageid) DO UPDATE SET tags
UpsertMessage(msgs, messageid, tagStr) ==
    IF \E m \in msgs : m.messageid = messageid
    THEN {IF m.messageid = messageid THEN [m EXCEPT !.tags = tagStr] ELSE m : m \in msgs}
    ELSE msgs \cup {[id |-> Max({m.id : m \in msgs}) + 1,
                     messageid |-> messageid, tags |-> tagStr]}

\* INSERT INTO uids SELECT id, ... ON CONFLICT(uidvalidity, uid) DO NOTHING
RECURSIVE InsertUIDs(_, _, _, _)
InsertUIDs(msgs, us, messageid, list) ==
    IF Len(list) = 0 THEN us
    ELSE LET u == Head(list)
             ids == {m.id : m \in {x \in msgs : x.messageid = messageid}}
             clash == \E r \in us : r.uidvalidity = u.UIDValidity /\ r.uid = u.UID
             next == IF clash THEN us
                     ELSE us \cup {[message_id |-> i, foldername |-> u.FolderName,
                                    uidvalidity |-> u.UIDValidity, uid |-> u.UID] :
                                       i \in ids}
         IN InsertUIDs(msgs, next, messageid, Tail(list))

\* mutant: the uids rows are written with an id no messages row has
AddMessageSyncInfoOrphan(db, info, tags) ==
    [messages |-> db.messages,
     uids |-> db.uids \cup {[message_id |-> Max({m.id : m \in db.messages}) + 1,
                             foldername |-> info.UIDs[i].FolderName,
                             uidvalidity |-> info.UIDs[i].UIDValidity,
                             uid |-> info.UIDs[i].UID] : i \in 1..Len(info.UIDs)}]

AddMessageSyncInfo(db, info, tags) ==
    LET msgs == UpsertMessage(db.messages, info.MessageID, Join(tags)) IN
    [messages |-> msgs, uids |-> InsertUIDs(msgs, db.uids, info.MessageID, info.UIDs)]

\* -------------------------------------------------------- flag translator
\* mutant: the keywords of ignored_tags are let through
translateFlagsUnfiltered(imapFlags) ==
    LET seen == SeenFlag \in imapFlags
        mapped == {t \in {<<"replied">>, <<"deleted">>, <<"draft">>, <<"flagged">>} :
                     \/ t = <<"replied">> /\ AnsweredFlag \in imapFlags
                     \/ t = <<"deleted">> /\ DeletedFlag \in imapFlags
                     \/ t = <<"draft">> /\ DraftFlag \in imapFlags
                     \/ t = <<"flagged">> /\ FlaggedFlag \in imapFlags}
        other == {f \in imapFlags :
                     /\ f \notin {SeenFlag, AnsweredFlag, DeletedFlag, DraftFlag, FlaggedFlag}
                     /\ f[1] # "\\"}
    IN [flags |-> mapped \cup other \cup (IF seen THEN {} ELSE {TagUnread}),
        seen |-> seen]

translateFlags(imapFlags) ==
    LET seen == SeenFlag \in imapFlags
        mapped == {t \in {<<"replied">>, <<"deleted">>, <<"draft">>, <<"flagged">>} :
                     \/ t = <<"replied">> /\ AnsweredFlag \in imapFlags
                     \/ t = <<"deleted">> /\ DeletedFlag \in imapFlags
                     \/ t = <<"draft">> /\ DraftFlag \in imapFlags
                     \/ t = <<"flagged">> /\ FlaggedFlag \in imapFlags}
        other == {f \in imapFlags :
                     /\ f \notin {SeenFlag, AnsweredFlag, DeletedFlag, DraftFlag, FlaggedFlag}
                     /\ f[1] # "\\"
                     /\ f \notin IgnoredTags}
    IN [flags |-> mapped \cup other \cup (IF seen THEN {} ELSE {TagUnread}),
        seen |-> seen]

\* ------------------------------------------------------------- IMAP wire
Cmd(op, folder, uid, item, tags) ==
    [op |-> op, folder |-> folder, uid |-> uid, item |-> item, tags |-> tags]

IsPushCmd(c) == c.op \in {"STORE", "APPEND"}
IsPullCmd(c) == c.op \in {"LIST", "FETCH", "BODY"}

\* the server's side of UID STORE <uid> +FLAGS.SILENT / -FLAGS.SILENT
ServerStore(mbox, uid, item, tags) ==
    {IF m.uid = uid
     THEN [m EXCEPT !.flags = IF item = "+FLAGS.SILENT" THEN @ \cup ListToSet(tags)
                              ELSE @ \ ListToSet(tags)]
     ELSE m : m \in mbox}

\* ------------------------------------------------------------- push side
\* mutant: the ignored tags are not filtered out
StoreUnfiltered(tags) == tags

\* one element of updateUID's updateList: filter the ignored tags, then UID STORE
StoreFiltered(tags) == SelectSeq(tags, LAMBDA v : v \notin IgnoredTags)

StoreStep(w, uid, item, tags) ==
    LET sent == StoreFiltered(tags) IN
    IF Len(sent) = 0 THEN w
    ELSE [w EXCEPT !.wire = Append(@, Cmd("STORE", uid.FolderName, uid.UID, item, sent)),
                   !.srv[uid.FolderName] = ServerStore(@, uid.UID, item, sent)]

\* mutant: the UIDVALIDITY of the binding is not compared
StaleBindingNever(uid) == FALSE

\* the UIDVALIDITY SELECT reports is not the one of the binding
StaleBinding(uid) == srvValidity[uid.FolderName] # uid.UIDValidity

updateUID(w, msgUpdate, uid) ==
    LET w1 == [w EXCEPT !.wire = Append(@, Cmd("SELECT", uid.FolderName, 0, "", <<>>))] IN
    IF StaleBinding(uid)
    THEN [w1 EXCEPT !.err = TRUE]
    ELSE LET w2 == StoreStep(w1, uid, "+FLAGS.SILENT", msgUpdate.info.AddedTags)
             w3 == StoreStep(w2, uid, "-FLAGS.SILENT", msgUpdate.info.RemovedTags)
             db == AddMessageSyncInfo([messages |-> w3.messages, uids |-> w3.uids],
                                      msgUpdate.info, msgUpdate.info.WantedTags)
         IN [w3 EXCEPT !.messages = db.messages, !.uids = db.uids]

\* the flag list createMessage hands to APPEND
AppendFlags(msgUpdate) == msgUpdate.info.AddedTags

\* what the server makes of an APPEND: it has no UIDPLUS, it answers without
\* the UID of the new message, or it answers with UIDVALIDITY and UID
Replies == {"noplus", "zero", "uid"}

createMessage(w, msgUpdate, uidInfo, reply) ==
    LET f == uidInfo.FolderName
        u == w.srvNext[f]
        w1 == [w EXCEPT
                 !.wire = Append(@, Cmd("APPEND", f, IF reply = "uid" THEN u ELSE 0, "",
                                        AppendFlags(msgUpdate))),
                 !.srv[f] = @ \cup {[uid |-> u, mid |-> msgUpdate.Filename.mid,
                                     flags |-> ListToSet(AppendFlags(msgUpdate))]},
                 !.srvNext[f] = u + 1]
        bound == [msgUpdate.info EXCEPT !.UIDs = <<MkUID(f, srvValidity[f], u)>>]
        db == AddMessageSyncInfo([messages |-> w1.messages, uids |-> w1.uids],
                                 bound, msgUpdate.info.AddedTags)
    IN CASE reply = "noplus" -> [w EXCEPT !.err = TRUE]
         [] reply = "zero" -> w1
         [] OTHER -> [w1 EXCEPT !.messages = db.messages, !.uids = db.uids]

RECURSIVE UpdateAll(_, _, _)
UpdateAll(w, msgUpdate, list) ==
    IF Len(list) = 0 \/ w.err THEN w
    ELSE UpdateAll(updateUID(w, msgUpdate, Head(list)), msgUpdate, Tail(list))

Update(w, msgUpdate, reply) ==
    IF msgUpdate.info.Created
    THEN createMessage(w, msgUpdate, msgUpdate.info.UIDs[1], reply)
    ELSE IF Len(msgUpdate.info.AddedTags) = 0 /\ Len(msgUpdate.info.RemovedTags) = 0
    THEN w
    ELSE UpdateAll(w, msgUpdate, msgUpdate.info.UIDs)

\* ------------------------------------------------------------ local scan
\* the files CheckFolders visits: folder by folder, each folder's cur/ listing
RECURSIVE ScanOrder(_, _)
ScanOrder(files, folders) ==
    IF Len(folders) = 0 THEN <<>>
    ELSE SetToList({f \in files : f.folder = Head(folders)})
            \o ScanOrder(files, Tail(folders))

\* checkMailbox, one file that the index knows: its tags without the derived ones
ScanTags(tags) == SetToList(tags \ {<<"attachment">>, <<"signed">>})

NeedsUpdate(info) ==
    Len(info.AddedTags) > 0 \/ Len(info.RemovedTags) > 0 \/ info.Created

\* -------------------------------------------------------------- pull side
RECURSIVE ByUID(_)
ByUID(mbox) ==
    IF mbox = {} THEN <<>>
    ELSE LET m == CHOOSE x \in mbox : \A y \in mbox : x.uid <= y.uid
         IN <<m>> \o ByUID(mbox \ {m})

\* mutant: a message without differences is left out, known or not
ListIntentSkipCreated(db, mailbox, validity, m) ==
    LET tf == translateFlags(m.flags)
        info == CheckTagsUID(db.messages, db.uids, mailbox, validity, m.uid,
                             SetToList(tf.flags))
    IN IF tf.seen
       THEN IF Len(info.AddedTags) = 0 /\ Len(info.RemovedTags) = 0
            THEN <<>>
            ELSE <<[UID |-> m.uid, Seen |-> ~info.Created, Info |-> info]>>
       ELSE <<[UID |-> m.uid, Seen |-> FALSE, Info |-> EmptyInfo]>>

\* the listing loop's body for one message: no intent, or one intent
ListIntent(db, mailbox, validity, m) ==
    LET tf == translateFlags(m.flags)
        info == CheckTagsUID(db.messages, db.uids, mailbox, validity, m.uid,
                             SetToList(tf.flags))
    IN IF tf.seen
       THEN IF ~info.Created /\ Len(info.AddedTags) = 0 /\ Len(info.RemovedTags) = 0
            THEN <<>>
            ELSE <<[UID |-> m.uid, Seen |-> ~info.Created, Info |-> info]>>
       ELSE <<[UID |-> m.uid, Seen |-> FALSE, Info |-> EmptyInfo]>>

\* mutant: the listing loop advances the cursor map itself
RECURSIVE ListMessagesEager(_, _, _, _, _)
ListMessagesEager(db, mailbox, validity, list, acc) ==
    IF Len(list) = 0 THEN acc
    ELSE LET m == Head(list) IN
         ListMessagesEager(db, mailbox, validity, Tail(list),
             [acc EXCEPT !.updateList = @ \o ListIntent(db, mailbox, validity, m),
                         !.hwm = IF m.uid > @ THEN m.uid ELSE @,
                         !.cfg[mailbox] = IF m.uid > @ THEN m.uid ELSE @])

\* the listing loop: the intents, the high-water mark, and the cursor map,
\* which the loop leaves alone
RECURSIVE ListMessages(_, _, _, _, _)
ListMessages(db, mailbox, validity, list, acc) ==
    IF Len(list) = 0 THEN acc
    ELSE LET m == Head(list) IN
         ListMessages(db, mailbox, validity, Tail(list),
             [acc EXCEPT !.updateList = @ \o ListIntent(db, mailbox, validity, m),
                         !.hwm = IF m.uid > @ THEN m.uid ELSE @])

\* mutant: the new cursor is dropped
setLastSeenUIDStale(cfg, mailbox, uid) == cfg

setLastSeenUID(cfg, mailbox, uid) == [cfg EXCEPT ![mailbox] = uid]

\* folder_tags applied to a new download: "-tag" removes a present tag
RECURSIVE ApplyFolderTags(_, _)
ApplyFolderTags(currentFlags, list) ==
    IF Len(list) = 0 THEN currentFlags
    ELSE LET tag == TrimSpace(Head(list)) IN
         IF HasPrefixDash(tag)
         THEN ApplyFolderTags(currentFlags \ {Tail(tag)}, Tail(list))
         ELSE ApplyFolderTags(currentFlags \cup {tag}, Tail(list))

\* the body of a message, as bytes
Body(mid) == IF mid = "m1" THEN <<1, 2>> ELSE <<2, 1, 3>>

\* md5.New().Sum over the bytes written: a small digest stands for MD5
RECURSIVE MD5Sum(_)
MD5Sum(bytes) ==
    IF Len(bytes) = 0 THEN 7
    ELSE (MD5Sum(SubSeq(bytes, 1, Len(bytes) - 1)) * 31 + bytes[Len(bytes)]) % 251

\* mutant: the hash is fed the first byte only
HashInputFirst(written) == SubSeq(written, 1, 1)

\* io.MultiWriter(fd, md5hash): the hash is fed the bytes the file is
HashInput(written) == written

\* the ",FMD5=%x" part of the name of a file in cur/
FMD5Suffix(written) == <<MD5Sum(HashInput(written))>>

\* mutant: the stored set is taken before unread is added for an unseen message
StoredFlagsNoUnread(imapFlags, indexed) == imapFlags \ {TagUnread}

\* mutant: the stored set is the set after folder_tags
StoredFlagsIndexed(imapFlags, indexed) == indexed

\* the tag set getMessage hands to AddMessageSyncInfo
StoredFlags(imapFlags, indexed) == imapFlags

\* mutant: the tags are applied to the message the index already holds
AddMessageTagsDuplicate(idx, mid, tags) ==
    [x \in DOMAIN idx \cup {mid} |->
        IF x = mid THEN (IF mid \in DOMAIN idx THEN idx[mid] \cup tags ELSE tags)
        ELSE idx[x]]

\* the WrapRW callback of getMessage: db.AddMessage, then the tags; on
\* ErrDuplicateMessageID the callback returns before any tag is touched
AddMessage(idx, mid, tags) ==
    IF mid \in DOMAIN idx THEN idx
    ELSE [x \in DOMAIN idx \cup {mid} |-> IF x = mid THEN tags ELSE idx[x]]

\* the Message-ID getMessage records: read from the index unless AddMessage
\* reported a duplicate, in which case the variable keeps its zero value
RecordedID(mid, dup) == IF dup THEN "" ELSE mid

\* fail says where the download stops, by an error return or by the process
\* dying: "body" before the rename, "index" after the rename, "store" after the
\* index was written, "uids" between the two statements of AddMessageSyncInfo
getMessage(w, mailbox, uid, fail) ==
    LET m == CHOOSE x \in srv[mailbox] : x.uid = uid
        w0 == [w EXCEPT !.wire = @ \o <<Cmd("SELECT", mailbox, 0, "", <<>>),
                                        Cmd("BODY", mailbox, uid, "", <<>>)>>]
        file == [folder |-> mailbox, uid |-> uid, seq |-> w.fileSeq + 1, mid |-> m.mid,
                 bytes |-> Body(m.mid), fmd5 |-> FMD5Suffix(Body(m.mid))]
        w1 == [w0 EXCEPT !.cur = @ \cup {file}, !.promoted = @ + 1, !.fileSeq = @ + 1]
        imapFlags == translateFlags(m.flags).flags
        dup == m.mid \in DOMAIN w.idxTags
        indexed == IF mailbox \in DOMAIN folderTags
                   THEN ApplyFolderTags(imapFlags, Split(folderTags[mailbox]))
                   ELSE imapFlags
        w2 == [w1 EXCEPT !.idxFiles = @ \cup {file},
                         !.idxTags = AddMessage(@, m.mid, indexed)]
        info == [EmptyInfo EXCEPT !.MessageID = RecordedID(m.mid, dup),
                                  !.UIDs = <<MkUID(mailbox, srvValidity[mailbox], uid)>>]
        db == AddMessageSyncInfo([messages |-> w.messages, uids |-> w.uids], info,
                                 SetToList(StoredFlags(imapFlags, indexed)))
    IN CASE fail = "body" -> [w0 EXCEPT !.err = TRUE]
         [] fail = "index" -> [w1 EXCEPT !.err = TRUE]
         [] fail = "store" -> [w2 EXCEPT !.err = TRUE]
         [] fail = "uids" -> [w2 EXCEPT !.messages = db.messages, !.err = TRUE]
         [] OTHER -> [w2 EXCEPT !.messages = db.messages, !.uids = db.uids]

\* the flag-delta branch: tags of a known message adjusted inside WrapRW
\* (fail: where the branch stops, by an error return or by the process dying)
flagDelta(w, info, fail) ==
    LET known == info.MessageID \in DOMAIN w.idxTags
        tags == (w.idxTags[info.MessageID] \cup ListToSet(info.AddedTags))
                    \ ListToSet(info.RemovedTags)
        w1 == [w EXCEPT !.idxTags[info.MessageID] = tags]
        db == AddMessageSyncInfo([messages |-> w.messages, uids |-> w.uids], info,
                                 info.WantedTags)
    IN CASE ~known \/ fail \in {"body", "index"} -> [w EXCEPT !.err = TRUE]
         [] fail = "store" -> [w1 EXCEPT !.err = TRUE]
         [] fail = "uids" -> [w1 EXCEPT !.messages = db.messages, !.err = TRUE]
         [] OTHER -> [w1 EXCEPT !.messages = db.messages, !.uids = db.uids]

NeedsBody(update) == ~update.Seen \/ update.Info.MessageID = ""

\* ------------------------------------------------------------------- init
\* no direct caller of the sync store is at work
ApiIdle ==
    [phase |-> "off", folder |-> "", mid |-> "", wanted |-> <<>>,
     first |-> EmptyInfo, second |-> EmptyInfo]

NoFolderTags == [f \in {} |-> <<>>]
FolderTagChoices == {NoFolderTags, [f \in {"INBOX"} |-> <<"inbox">>]}

DeliverFlagSets == {{}, {SeenFlag}, {SeenFlag, TagMDN}}
UserTags == {TagTodo, TagMDN, TagUnread}
CreateTagSets == {{}, {TagUnread, TagMDN}}
\* the folders the user files new local messages in
CreateFolders == {"INBOX"}

\* every folder has a UIDVALIDITY of its own, or the folders share one
DistinctValidity == [f \in Folders |-> IF f = "INBOX" THEN 1 ELSE 2]
SharedValidity == [f \in Folders |-> 1]

\* the maildir and the index of a new installation: no mail
InitDisk ==
    /\ cur = {}
    /\ idxTags = [m \in {} |-> {}]
    /\ idxFiles = {}
    /\ fileSeq = 0

InitOther ==
    /\ folderTags \in FolderTagChoices
    /\ srv = [f \in Folders |-> {}]
    /\ srvNext = [f \in Folders |-> 1]
    /\ messages = {}
    /\ uids = {}
    /\ lastSeen = [f \in Folders |-> 0]
    /\ sidecar = [f \in Folders |-> 0]
    /\ queue = <<>>
    /\ qClosed = FALSE
    /\ scanTodo = <<>>
    /\ pcScan = "off"
    /\ pcMain = "idle"
    /\ pullTodo = <<>>
    /\ updateList = <<>>
    /\ hwm = 0
    /\ fullScan = FALSE
    /\ wire = <<>>
    /\ promoted = 0
    /\ quiet = FALSE
    /\ prevAppend = FALSE
    /\ okPulls = {}
    /\ startCursor = 0
    /\ atStart = [tags |-> [m \in {} |-> {}], messages |-> {}, uids |-> {}]
    /\ runs = 0
    /\ envCount = 0
    /\ faults = 0

InitRest == InitDisk /\ InitOther

InitMain == InitRest /\ srvValidity = DistinctValidity

Init == InitMain /\ api = ApiIdle

\* ------------------------------------------------------------ environment
Stopped == pcMain \in {"idle", "done", "exit"}

\* the environment acts between runs, while a further run is still to come
MayChange == Stopped /\ envCount < MaxEnv /\ runs < MaxRuns

\* Message-IDs are interchangeable: "m2" comes into being only after "m1"
UsedIDs == {m.mid : m \in UNION {srv[f] : f \in Folders}} \cup DOMAIN idxTags
InOrder(mid) == mid = "m1" \/ "m1" \in UsedIDs

confVars == <<folderTags, srvValidity, api>>
runVars == <<lastSeen, queue, qClosed, scanTodo, pcScan, pullTodo, updateList, hwm,
             fullScan, wire, promoted, quiet, prevAppend, okPulls, startCursor, atStart, runs,
             faults>>

\* between two runs a message arrives in a server folder
ServerDeliver(f, mid, flags) ==
    /\ MayChange /\ InOrder(mid)
    /\ srv' = [srv EXCEPT ![f] = @ \cup {[uid |-> srvNext[f], mid |-> mid, flags |-> flags]}]
    /\ srvNext' = [srvNext EXCEPT ![f] = @ + 1]
    /\ envCount' = envCount + 1
    /\ pcMain' = "idle"
    /\ UNCHANGED <<confVars, runVars, cur, idxTags, idxFiles, messages, uids, sidecar,
                   fileSeq>>

\* between two runs the user adds a tag to, or removes one from, an indexed message
LocalTag(mid, tag) ==
    /\ MayChange
    /\ mid \in DOMAIN idxTags
    /\ idxTags' = [idxTags EXCEPT ![mid] = IF tag \in @ THEN @ \ {tag} ELSE @ \cup {tag}]
    /\ envCount' = envCount + 1
    /\ pcMain' = "idle"
    /\ UNCHANGED <<confVars, runVars, srv, srvNext, cur, idxFiles, messages, uids,
                   sidecar, fileSeq>>

\* between two runs a message written locally is filed in cur/ and indexed
LocalCreate(f, mid, tags) ==
    /\ MayChange /\ InOrder(mid)
    /\ mid \notin DOMAIN idxTags
    /\ LET file == [folder |-> f, uid |-> 0, seq |-> fileSeq + 1, mid |-> mid,
                    bytes |-> Body(mid), fmd5 |-> <<>>] IN
       /\ cur' = cur \cup {file}
       /\ idxFiles' = idxFiles \cup {file}
    /\ idxTags' = [x \in DOMAIN idxTags \cup {mid} |-> IF x = mid THEN tags ELSE idxTags[x]]
    /\ fileSeq' = fileSeq + 1
    /\ envCount' = envCount + 1
    /\ pcMain' = "idle"
    /\ UNCHANGED <<confVars, runVars, srv, srvNext, messages, uids, sidecar>>

\* between two runs the server gives a folder a new UIDVALIDITY.  The program
\* can tell the change only where a binding is recorded for the folder, so the
\* change is taken for such a folder only, and once per folder.
ServerRenew(f) ==
    /\ MayChange /\ runs >= 1
    /\ srvValidity[f] <= Cardinality(Folders)
    /\ \E r \in uids : r.foldername = f
    /\ srvValidity' = [srvValidity EXCEPT ![f] = @ + Cardinality(Folders)]
    /\ envCount' = envCount + 1
    /\ pcMain' = "idle"
    /\ UNCHANGED <<folderTags, api, runVars, srv, srvNext, cur, idxTags, idxFiles,
                   messages, uids, sidecar, fileSeq>>

\* between two runs another client expunges the newest message of a folder, one
\* the store has a binding for; the server loses at most one message this way
ServerExpunge(f, uid) ==
    /\ Stopped /\ runs >= 1 /\ runs < MaxRuns
    /\ \A g \in Folders : Cardinality(srv[g]) = srvNext[g] - 1
    /\ uid = srvNext[f] - 1
    /\ \E r \in uids : r.foldername = f /\ r.uid = uid
    /\ \E m \in srv[f] : m.uid = uid
    /\ srv' = [srv EXCEPT ![f] = {m \in @ : m.uid # uid}]
    /\ pcMain' = "idle"
    /\ UNCHANGED <<confVars, runVars, srvNext, cur, idxTags, idxFiles, messages, uids,
                   sidecar, fileSeq, envCount>>

\* between two runs another client reads a message the store has a binding
\* for: the server sets \Seen on it
ServerSeen(f, uid) ==
    /\ MayChange /\ runs >= 1
    /\ \E r \in uids : r.foldername = f /\ r.uid = uid
    /\ \E m \in srv[f] : m.uid = uid /\ SeenFlag \notin m.flags
    /\ srv' = [srv EXCEPT ![f] = {IF m.uid = uid THEN [m EXCEPT !.flags = @ \cup {SeenFlag}]
                                  ELSE m : m \in @}]
    /\ envCount' = envCount + 1
    /\ pcMain' = "idle"
    /\ UNCHANGED <<confVars, runVars, srvNext, cur, idxTags, idxFiles, messages, uids,
                   sidecar, fileSeq>>

\* ------------------------------------------------------------------- main
\* main up to the receive loop: the local scan is started, imap.New loads .imap-uids
\* (with every cursor at 0 a full scan is the same run as a plain one)
StartRun(full) ==
    /\ Stopped /\ runs < MaxRuns
    /\ full => \E f \in Folders : sidecar[f] > 0
    /\ runs' = runs + 1
    /\ fullScan' = full
    /\ quiet' = (pcMain = "done" /\ ~full)
    /\ prevAppend' = \E i \in 1..Len(wire) : wire[i].op = "APPEND" /\ wire[i].uid = 0
    /\ scanTodo' = ScanOrder(cur, FolderOrder)
    /\ pcScan' = "scan"
    /\ queue' = <<>>
    /\ qClosed' = FALSE
    /\ lastSeen' = sidecar
    /\ wire' = <<>>
    /\ promoted' = 0
    /\ okPulls' = {}
    /\ pullTodo' = <<>>
    /\ updateList' = <<>>
    /\ hwm' = 0
    /\ startCursor' = 0
    /\ atStart' = [tags |-> idxTags, messages |-> messages, uids |-> uids]
    /\ pcMain' = "push"
    /\ UNCHANGED <<confVars, srv, srvNext, cur, idxTags, idxFiles, messages, uids,
                   sidecar, fileSeq, envCount, faults>>

\* checkMailbox, one file of the listing
ScanFile ==
    /\ pcMain = "push" /\ pcScan = "scan" /\ Len(scanTodo) > 0
    /\ LET file == Head(scanTodo)
           info == CheckTags(messages, uids, file.folder, file.mid,
                             ScanTags(idxTags[file.mid]))
       IN queue' = IF file \in idxFiles /\ NeedsUpdate(info)
                   THEN Append(queue, [info |-> info, Filename |-> file])
                   ELSE queue
    /\ scanTodo' = Tail(scanTodo)
    /\ UNCHANGED <<confVars, srv, srvNext, cur, idxTags, idxFiles, messages, uids,
                   lastSeen, sidecar, qClosed, pcScan, pcMain, pullTodo, updateList, hwm,
                   fullScan, wire, promoted, quiet, prevAppend, okPulls, startCursor, fileSeq, runs, atStart,
                   envCount, faults>>

\* CheckFolders returned nil: the goroutine closes the queue
ScanClose ==
    /\ pcMain = "push" /\ pcScan = "scan" /\ Len(scanTodo) = 0
    /\ qClosed' = TRUE
    /\ pcScan' = "done"
    /\ UNCHANGED <<confVars, srv, srvNext, cur, idxTags, idxFiles, messages, uids,
                   lastSeen, sidecar, queue, scanTodo, pcMain, pullTodo, updateList, hwm,
                   fullScan, wire, promoted, quiet, prevAppend, okPulls, startCursor, fileSeq, runs, atStart,
                   envCount, faults>>

\* mutant: the receive loop ends as soon as the queue is found empty
QueueDrainedEarly == Len(queue) = 0

\* main may leave the receive loop for CheckMessages
QueueDrained == Len(queue) = 0 /\ qClosed

\* one iteration of  for msgUpdate := range imapQueue { h.Update(...) }
\* (reply: the server's answer to the APPEND, if the update sends one)
PushUpdate(reply) ==
    /\ pcMain = "push" /\ Len(queue) > 0
    /\ reply # "uid" => Head(queue).info.Created
    /\ reply = "noplus" => faults < MaxFaults
    /\ LET w == Update([messages |-> messages, uids |-> uids, srv |-> srv,
                        srvNext |-> srvNext, wire |-> wire, err |-> FALSE],
                       Head(queue), reply)
       IN /\ messages' = w.messages
          /\ uids' = w.uids
          /\ srv' = w.srv
          /\ srvNext' = w.srvNext
          /\ wire' = w.wire
          /\ pcMain' = IF w.err THEN "exit" ELSE "push"
    /\ queue' = Tail(queue)
    /\ faults' = IF reply = "noplus" THEN faults + 1 ELSE faults
    /\ UNCHANGED <<confVars, cur, idxTags, idxFiles, lastSeen, sidecar, qClosed, scanTodo,
                   pcScan, pullTodo, updateList, hwm, fullScan, promoted, quiet, prevAppend, okPulls,
                   startCursor, fileSeq, runs, atStart, envCount>>

\* the receive loop ends; CheckMessages lists the folders
PushDone ==
    /\ pcMain = "push" /\ QueueDrained
    /\ pcMain' = "pull"
    /\ pullTodo' = FolderOrder
    /\ wire' = Append(wire, Cmd("LIST", "", 0, "", <<>>))
    /\ UNCHANGED <<confVars, srv, srvNext, cur, idxTags, idxFiles, messages, uids,
                   lastSeen, sidecar, queue, qClosed, scanTodo, pcScan, updateList, hwm,
                   fullScan, promoted, quiet, prevAppend, okPulls, startCursor, fileSeq, runs, atStart,
                   envCount, faults>>

\* mailboxFetchMessages up to the end of the listing
PullList ==
    /\ pcMain = "pull" /\ Len(pullTodo) > 0
    /\ LET mailbox == Head(pullTodo)
           start == IF fullScan THEN 0 ELSE lastSeen[mailbox]
           listed == ByUID({m \in srv[mailbox] : m.uid > start})
           res == ListMessages([messages |-> messages, uids |-> uids], mailbox,
                               srvValidity[mailbox], listed,
                               [updateList |-> <<>>, hwm |-> start, cfg |-> lastSeen])
       IN IF srv[mailbox] = {}
          THEN /\ wire' = Append(wire, Cmd("SELECT", mailbox, 0, "", <<>>))
               /\ okPulls' = okPulls \cup {mailbox}
               /\ pullTodo' = Tail(pullTodo)
               /\ UNCHANGED <<pcMain, updateList, hwm, startCursor, lastSeen>>
          ELSE /\ wire' = wire \o <<Cmd("SELECT", mailbox, 0, "", <<>>),
                                    Cmd("FETCH", mailbox, start + 1, "", <<>>)>>
               /\ updateList' = res.updateList
               /\ hwm' = res.hwm
               /\ lastSeen' = res.cfg
               /\ startCursor' = lastSeen[mailbox]
               /\ pcMain' = "fetch"
               /\ UNCHANGED <<okPulls, pullTodo>>
    /\ UNCHANGED <<confVars, srv, srvNext, cur, idxTags, idxFiles, messages, uids,
                   sidecar, queue, qClosed, scanTodo, pcScan, fullScan, promoted, quiet, prevAppend,
                   fileSeq, runs, atStart, envCount, faults>>

\* the listing aborts: the server sent UID 0, or CheckTagsUID failed
PullListFail ==
    /\ pcMain = "pull" /\ Len(pullTodo) > 0 /\ faults < MaxFaults
    /\ LET mailbox == Head(pullTodo)
           start == IF fullScan THEN 0 ELSE lastSeen[mailbox]
       IN /\ srv[mailbox] # {}
          /\ wire' = wire \o <<Cmd("SELECT", mailbox, 0, "", <<>>),
                               Cmd("FETCH", mailbox, start + 1, "", <<>>)>>
          /\ startCursor' = lastSeen[mailbox]
    /\ faults' = faults + 1
    /\ pcMain' = "exit"
    /\ UNCHANGED <<confVars, srv, srvNext, cur, idxTags, idxFiles, messages, uids,
                   lastSeen, sidecar, queue, qClosed, scanTodo, pcScan, pullTodo,
                   updateList, hwm, fullScan, promoted, quiet, prevAppend, okPulls, fileSeq, runs, atStart,
                   envCount>>

FailPoints == {"none", "body", "index", "store", "uids"}

\* one iteration of the loop over updateList
PullIntent(fail) ==
    /\ pcMain = "fetch" /\ Len(updateList) > 0
    /\ fail # "none" => faults < MaxFaults
    /\ LET update == Head(updateList)
           w0 == [cur |-> cur, idxTags |-> idxTags, idxFiles |-> idxFiles,
                  messages |-> messages, uids |-> uids, wire |-> wire,
                  promoted |-> promoted, fileSeq |-> fileSeq, err |-> FALSE]
           w == IF NeedsBody(update)
                THEN getMessage(w0, Head(pullTodo), update.UID, fail)
                ELSE flagDelta(w0, update.Info, fail)
       IN /\ cur' = w.cur
          /\ idxTags' = w.idxTags
          /\ idxFiles' = w.idxFiles
          /\ messages' = w.messages
          /\ uids' = w.uids
          /\ wire' = w.wire
          /\ promoted' = w.promoted
          /\ fileSeq' = w.fileSeq
          /\ pcMain' = IF w.err THEN "exit" ELSE "fetch"
    /\ faults' = IF fail # "none" THEN faults + 1 ELSE faults
    /\ updateList' = Tail(updateList)
    /\ UNCHANGED <<confVars, srv, srvNext, lastSeen, sidecar, queue, qClosed, scanTodo,
                   pcScan, pullTodo, hwm, fullScan, quiet, prevAppend, okPulls, startCursor, runs, atStart,
                   envCount>>

\* the loop over updateList is through: the cursor is set, the folder is done
PullFinish ==
    /\ pcMain = "fetch" /\ Len(updateList) = 0
    /\ lastSeen' = setLastSeenUID(lastSeen, Head(pullTodo), hwm)
    /\ okPulls' = okPulls \cup {Head(pullTodo)}
    /\ pullTodo' = Tail(pullTodo)
    /\ pcMain' = "pull"
    /\ UNCHANGED <<confVars, srv, srvNext, cur, idxTags, idxFiles, messages, uids,
                   sidecar, queue, qClosed, scanTodo, pcScan, updateList, hwm, fullScan,
                   wire, promoted, quiet, prevAppend, startCursor, fileSeq, runs, atStart, envCount, faults>>

\* CheckMessages returned nil: Handler.Close writes .imap-uids
CloseHandler ==
    /\ pcMain = "pull" /\ Len(pullTodo) = 0
    /\ sidecar' = lastSeen
    /\ pcMain' = "done"
    /\ UNCHANGED <<confVars, srv, srvNext, cur, idxTags, idxFiles, messages, uids,
                   lastSeen, queue, qClosed, scanTodo, pcScan, pullTodo, updateList, hwm,
                   fullScan, wire, promoted, quiet, prevAppend, okPulls, startCursor, fileSeq, runs, atStart,
                   envCount, faults>>

Next ==
    \/ \E f \in Folders, mid \in MessageIDs, flags \in DeliverFlagSets :
          ServerDeliver(f, mid, flags)
    \/ \E mid \in MessageIDs, tag \in UserTags : LocalTag(mid, tag)
    \/ \E f \in CreateFolders, mid \in MessageIDs, tags \in CreateTagSets :
          LocalCreate(f, mid, tags)
    \/ \E f \in Folders : ServerRenew(f)
    \/ \E f \in Folders, uid \in 1..(MaxEnv + 1) : ServerExpunge(f, uid)
    \/ \E full \in BOOLEAN : StartRun(full)
    \/ ScanFile
    \/ ScanClose
    \/ \E reply \in Replies : PushUpdate(reply)
    \/ PushDone
    \/ PullList
    \/ PullListFail
    \/ \E fail \in FailPoints : PullIntent(fail)
    \/ PullFinish
    \/ CloseHandler

Spec == Init /\ [][Next]_vars

\* ------------------------------------- the server seen more closely
\* Runs that nothing cuts short, against a server whose folders may share one
\* UIDVALIDITY and whose messages other clients read between the runs.
InitServer ==
    /\ InitRest
    /\ srvValidity \in {DistinctValidity, SharedValidity}
    /\ api = ApiIdle

NextServer ==
    \/ \E f \in Folders, mid \in MessageIDs, flags \in DeliverFlagSets :
          ServerDeliver(f, mid, flags)
    \/ \E mid \in MessageIDs, tag \in UserTags : LocalTag(mid, tag)
    \/ \E f \in Folders, mid \in MessageIDs, tags \in CreateTagSets :
          LocalCreate(f, mid, tags)
    \/ \E f \in Folders, uid \in 1..MaxEnv : ServerSeen(f, uid)
    \/ \E full \in BOOLEAN : StartRun(full)
    \/ ScanFile
    \/ ScanClose
    \/ \E reply \in Replies : PushUpdate(reply)
    \/ PushDone
    \/ PullList
    \/ PullIntent("none")
    \/ PullFinish
    \/ CloseHandler

SpecServer == InitServer /\ [][NextServer]_vars

\* ------------------------------------------- runs under fair scheduling
\* CheckFolders returns an error (a folder without cur/, an unreadable
\* directory, an error of the index or of the store): the goroutine logs it
\* and returns; close(imapQueue) is not reached
ScanFail ==
    /\ pcMain = "push" /\ pcScan = "scan" /\ faults < MaxFaults
    /\ pcScan' = "failed"
    /\ faults' = faults + 1
    /\ UNCHANGED <<confVars, srv, srvNext, cur, idxTags, idxFiles, messages, uids,
                   lastSeen, sidecar, queue, qClosed, scanTodo, pcMain, pullTodo, updateList, hwm,
                   fullScan, wire, promoted, quiet, prevAppend, okPulls, startCursor, fileSeq, runs, atStart,
                   envCount, api>>

\* the steps of the goroutine that scans the maildir
ScanStep == ScanFile \/ ScanClose \/ ScanFail

\* the steps of main after the goroutine was started
MainStep ==
    \/ \E reply \in Replies : PushUpdate(reply)
    \/ PushDone
    \/ PullList
    \/ PullIntent("none")
    \/ PullFinish
    \/ CloseHandler

NextLive ==
    \/ \E mid \in MessageIDs, tag \in UserTags : LocalTag(mid, tag)
    \/ \E f \in CreateFolders, mid \in MessageIDs, tags \in CreateTagSets :
          LocalCreate(f, mid, tags)
    \/ \E full \in BOOLEAN : StartRun(full)
    \/ ScanFile
    \/ ScanClose
    \/ ScanFail
    \/ \E reply \in Replies : PushUpdate(reply)
    \/ PushDone
    \/ PullList
    \/ PullIntent("none")
    \/ PullFinish
    \/ CloseHandler

\* both goroutines are scheduled as long as they can take a step; the
\* environment and the start of a run are under no obligation
SpecLive == Init /\ [][NextLive]_vars /\ WF_vars(ScanStep) /\ WF_vars(MainStep)

\* ------------------------------------------ one message filed in two folders
\* The program is installed over a maildir in which the user has filed one
\* message, "m1", in both folders; the index holds the two files as one
\* message.  Between the runs the user changes tags and the server renews
\* the UIDVALIDITY of a folder.
CopyFile(f, seq) ==
    [folder |-> f, uid |-> 0, seq |-> seq, mid |-> "m1", bytes |-> Body("m1"),
     fmd5 |-> <<>>]

InitCopies ==
    /\ InitOther
    /\ cur = {CopyFile("INBOX", 1), CopyFile("Work", 2)}
    /\ idxFiles = cur
    /\ idxTags \in {[m \in {"m1"} |-> tags] : tags \in CreateTagSets}
    /\ fileSeq = 2
    /\ srvValidity = DistinctValidity
    /\ api = ApiIdle

NextCopies ==
    \/ \E mid \in MessageIDs, tag \in UserTags : LocalTag(mid, tag)
    \/ \E f \in Folders : ServerRenew(f)
    \/ \E full \in BOOLEAN : StartRun(full)
    \/ ScanFile
    \/ ScanClose
    \/ \E reply \in Replies : PushUpdate(reply)
    \/ PushDone
    \/ PullList
    \/ PullIntent("none")
    \/ PullFinish
    \/ CloseHandler

SpecCopies == InitCopies /\ [][NextCopies]_vars

\* ------------------------------------------------- the sync store, directly
\* The store's API exercised by a caller of its own: the store is filled by a
\* few recordings, then one message goes through CheckTags,
\* AddMessageSyncInfo and CheckTags again.
MaxSeeds == 2
WantedLists == {<<>>, <<TagTodo>>, <<TagTodo, TagTodo>>, <<TagUnread, TagTodo>>}

mainVars == <<folderTags, srv, srvNext, srvValidity, cur, idxTags, idxFiles, lastSeen,
              sidecar, queue, qClosed, scanTodo, pcScan, pcMain, pullTodo, updateList,
              hwm, fullScan, wire, promoted, quiet, prevAppend, okPulls, startCursor,
              fileSeq, atStart, runs, envCount, faults>>

InitStore == InitMain /\ api = [ApiIdle EXCEPT !.phase = "seed"]

\* a message is recorded the way the local scan's result would be: CheckTags,
\* then AddMessageSyncInfo with the info it returned (the folder-only UID)
ApiSeedStub(folder, mid, wanted) ==
    /\ api.phase = "seed" /\ Cardinality(messages) < MaxSeeds
    /\ LET info == CheckTags(messages, uids, folder, mid, wanted)
           db == AddMessageSyncInfo([messages |-> messages, uids |-> uids], info, wanted)
       IN messages' = db.messages /\ uids' = db.uids
    /\ UNCHANGED <<mainVars, api>>

\* a message is recorded the way a download is: under the UID of the server
ApiSeedUID(folder, mid, wanted) ==
    /\ api.phase = "seed" /\ Cardinality(messages) < MaxSeeds
    /\ LET info == [EmptyInfo EXCEPT !.MessageID = mid,
                                     !.UIDs = <<MkUID(folder, srvValidity[folder], 1)>>]
           db == AddMessageSyncInfo([messages |-> messages, uids |-> uids], info, wanted)
       IN messages' = db.messages /\ uids' = db.uids
    /\ UNCHANGED <<mainVars, api>>

ApiCheck(folder, mid, wanted) ==
    /\ api.phase = "seed"
    /\ api' = [api EXCEPT !.phase = "checked", !.folder = folder, !.mid = mid,
                          !.wanted = wanted,
                          !.first = CheckTags(messages, uids, folder, mid, wanted)]
    /\ UNCHANGED <<mainVars, messages, uids>>

ApiAdd ==
    /\ api.phase = "checked"
    /\ LET db == AddMessageSyncInfo([messages |-> messages, uids |-> uids],
                                    api.first, api.wanted)
       IN messages' = db.messages /\ uids' = db.uids
    /\ api' = [api EXCEPT !.phase = "added"]
    /\ UNCHANGED mainVars

ApiRecheck ==
    /\ api.phase = "added"
    /\ api' = [api EXCEPT !.phase = "rechecked",
                          !.second = CheckTags(messages, uids, api.folder, api.mid,
                                               api.wanted)]
    /\ UNCHANGED <<mainVars, messages, uids>>

NextStore ==
    \/ \E f \in Folders, mid \in MessageIDs, w \in WantedLists : ApiSeedStub(f, mid, w)
    \/ \E f \in Folders, mid \in MessageIDs, w \in WantedLists : ApiSeedUID(f, mid, w)
    \/ \E f \in Folders, mid \in MessageIDs, w \in WantedLists : ApiCheck(f, mid, w)
    \/ ApiAdd
    \/ ApiRecheck

SpecStore == InitStore /\ [][NextStore]_vars

\* ------------------------------------------------------- the pure functions
\* listFolders: the walk over the server's LIST answer
RECURSIVE ListWalk(_, _, _, _)
ListWalk(server, include, exclude, acc) ==
    IF Len(server) = 0 THEN acc
    ELSE LET name == Head(server) IN
         IF name \in ListToSet(exclude)
         THEN ListWalk(Tail(server), include, exclude, acc)
         ELSE IF Len(include) # 0 /\ name \notin ListToSet(include)
         THEN ListWalk(Tail(server), include, exclude, acc)
         ELSE ListWalk(Tail(server), include, exclude,
                       [names |-> Append(acc.names, name),
                        seen |-> IF Len(include) # 0 THEN acc.seen \cup {name}
                                 ELSE acc.seen])

\* listFolders: the names to sync, or an error when an included folder was
\* not marked as seen
listFolders(include, exclude, server) ==
    LET w == ListWalk(server, include, exclude, [names |-> <<>>, seen |-> {}]) IN
    IF ListToSet(include) \subseteq w.seen
    THEN [names |-> w.names, err |-> FALSE]
    ELSE [names |-> <<>>, err |-> TRUE]

\* inputs of the pure functions
MaxNames == 2
FolderNames == Folders \cup {"Junk"}
NameLists ==
    {l \in UNION {[1..n -> FolderNames] : n \in 0..MaxNames} :
        \A i, j \in 1..Len(l) : i # j => l[i] # l[j]}
ServerFlags ==
    {SeenFlag, AnsweredFlag, DeletedFlag, DraftFlag, FlaggedFlag, <<"\\", "Recent">>,
     TagMDN, TagTodo, TagUnread}
PaddedTodo == <<" ", "todo", " ">>
StoredStrings ==
    {<<>>, TagTodo, Join(<<TagTodo, TagUnread>>), Join(<<TagTodo, TagTodo>>),
     Join(<<PaddedTodo, <<>>, TagMDN>>), <<" ">>}
WantedInputs ==
    WantedLists \cup {<<PaddedTodo>>, <<TagMDN, <<" ">>, <<>>>>, <<TagUnread, TagUnread>>}

InitPure == InitMain /\ api = [fn |-> "none", in |-> <<>>, out |-> <<>>]

CallTranslateFlags(flags) ==
    /\ api.fn = "none"
    /\ api' = [fn |-> "translateFlags", in |-> flags, out |-> translateFlags(flags)]
    /\ UNCHANGED <<mainVars, messages, uids>>

CallListFolders(include, exclude, server) ==
    /\ api.fn = "none"
    /\ api' = [fn |-> "listFolders",
               in |-> [include |-> include, exclude |-> exclude, server |-> server],
               out |-> listFolders(include, exclude, server)]
    /\ UNCHANGED <<mainVars, messages, uids>>

CallCompareTags(stored, wanted) ==
    /\ api.fn = "none"
    /\ api' = [fn |-> "compareTags", in |-> [stored |-> stored, wanted |-> wanted],
               out |-> compareTags(EmptyInfo, stored, wanted)]
    /\ UNCHANGED <<mainVars, messages, uids>>

NextPure ==
    \/ \E flags \in SUBSET ServerFlags : CallTranslateFlags(flags)
    \/ \E include \in NameLists, exclude \in NameLists, server \in NameLists :
          CallListFolders(include, exclude, server)
    \/ \E stored \in StoredStrings, wanted \in WantedInputs :
          CallCompareTags(stored, wanted)

SpecPure == InitPure /\ [][NextPure]_vars

\* ------------------------------------------------- the index facade alone
\* calls of Wrap and WrapRW, one after the other; api holds the facade: the
\* open handles of the index, the call in progress and the calls made
MaxCalls == 4

\* the nmDB field of a new DB: nil, and no statement assigns it
NmDBNil == TRUE

IndexIdle ==
    [pc |-> "idle", mode |-> "", nmDB |-> NmDBNil, readers |-> 0, writers |-> 0,
     calls |-> <<>>]

InitIndex == InitMain /\ api = IndexIdle

\* wrap registers the deferred Close for the read-write mode only
DeferClose(mode) == mode = "DBReadWrite"

\* wrap up to the call of fn: the Close of a kept handle, which needs a kept
\* handle; notmuch.Open (or Create), which fails or hands out a new handle
wrapOpen(db, mode, openErr) ==
    IF openErr
    THEN [db EXCEPT !.calls = Append(@, [mode |-> mode, err |-> "open"])]
    ELSE [db EXCEPT !.pc = "fn", !.mode = mode,
                    !.readers = IF mode = "DBReadOnly" THEN @ + 1 ELSE @,
                    !.writers = IF mode = "DBReadWrite" THEN @ + 1 ELSE @]

\* Wrap enters: a read-only handle is opened and fn starts
Wrap(openErr) ==
    /\ api.pc = "idle" /\ Len(api.calls) < MaxCalls
    /\ api' = wrapOpen(api, "DBReadOnly", openErr)
    /\ UNCHANGED <<mainVars, messages, uids>>

\* WrapRW enters: a read-write handle is opened and fn starts
WrapRW(openErr) ==
    /\ api.pc = "idle" /\ Len(api.calls) < MaxCalls
    /\ api' = wrapOpen(api, "DBReadWrite", openErr)
    /\ UNCHANGED <<mainVars, messages, uids>>

\* fn returns, with an error or without: the deferred Close runs if one was
\* registered, and wrap returns what fn returned
WrapReturn(fnErr) ==
    /\ api.pc = "fn"
    /\ api' = [api EXCEPT
                 !.pc = "idle", !.mode = "",
                 !.readers = IF DeferClose(api.mode) /\ api.mode = "DBReadOnly"
                             THEN @ - 1 ELSE @,
                 !.writers = IF DeferClose(api.mode) /\ api.mode = "DBReadWrite"
                             THEN @ - 1 ELSE @,
                 !.calls = Append(@, [mode |-> api.mode,
                                      err |-> IF fnErr THEN "fn" ELSE ""])]
    /\ UNCHANGED <<mainVars, messages, uids>>

NextIndex ==
    \/ \E openErr \in BOOLEAN : Wrap(openErr)
    \/ \E openErr \in BOOLEAN : WrapRW(openErr)
    \/ \E fnErr \in BOOLEAN : WrapReturn(fnErr)

SpecIndex == InitIndex /\ [][NextIndex]_vars

\* --------------------------------------- the UID FETCH of one listing alone
\* mailboxFetchMessages from the start of the UID FETCH to its return: the
\* goroutine around UidFetch and the loop that reads its channel. api holds
\* the two positions, the two channels and the cursor map of the handler.
MaxFetch == 3

\* what the server does with the command: it sends `sends` messages, UIDs
\* 1..sends, and then the command ends, with an error or without
FetchPlans == [sends : 0..MaxFetch, fails : BOOLEAN]

FetchStart(plan) ==
    [plan |-> plan, mailbox |-> "INBOX",
     worker |-> "fetch", sent |-> 0,
     msgs |-> <<>>, closed |-> FALSE, errchan |-> <<>>,
     coord |-> "range", lastSeenUID |-> 0, listed |-> 0,
     cfg |-> [f \in Folders |-> 0], result |-> ""]

InitFetch == InitMain /\ api \in {FetchStart(plan) : plan \in FetchPlans}

\* UidFetch hands one message to the channel
WorkerSend ==
    /\ api.worker = "fetch" /\ api.sent < api.plan.sends
    /\ api' = [api EXCEPT !.sent = @ + 1, !.msgs = Append(@, api.sent + 1)]
    /\ UNCHANGED <<mainVars, messages, uids>>

\* UidFetch returns: it has closed the channel; the goroutine holds its result
WorkerReturn ==
    /\ api.worker = "fetch" /\ api.sent = api.plan.sends
    /\ api' = [api EXCEPT !.closed = TRUE,
                          !.worker = IF api.plan.fails THEN "post" ELSE "done"]
    /\ UNCHANGED <<mainVars, messages, uids>>

\* the goroutine posts the error of UidFetch on errchan
WorkerPost ==
    /\ api.worker = "post"
    /\ api' = [api EXCEPT !.errchan = Append(@, "err"), !.worker = "done"]
    /\ UNCHANGED <<mainVars, messages, uids>>

\* one round of `for msg := range messages`
CoordReceive ==
    /\ api.coord = "range" /\ Len(api.msgs) > 0
    /\ api' = [api EXCEPT !.msgs = Tail(@),
                          !.lastSeenUID = IF Head(api.msgs) > @ THEN Head(api.msgs) ELSE @,
                          !.listed = @ + 1]
    /\ UNCHANGED <<mainVars, messages, uids>>

\* the range loop ends: the channel is closed and empty
CoordRangeEnd ==
    /\ api.coord = "range" /\ Len(api.msgs) = 0 /\ api.closed
    /\ api' = [api EXCEPT !.coord = "poll"]
    /\ UNCHANGED <<mainVars, messages, uids>>

\* select with default: an error that is on errchan now is returned,
\* otherwise the intents are applied, the cursor is set and nil is returned
CoordPoll ==
    /\ api.coord = "poll"
    /\ api' = IF Len(api.errchan) > 0
              THEN [api EXCEPT !.errchan = Tail(@), !.coord = "returned",
                               !.result = "err"]
              ELSE [api EXCEPT !.coord = "returned", !.result = "nil",
                               !.cfg = setLastSeenUID(@, api.mailbox, api.lastSeenUID)]
    /\ UNCHANGED <<mainVars, messages, uids>>

NextFetch ==
    \/ WorkerSend
    \/ WorkerReturn
    \/ WorkerPost
    \/ CoordReceive
    \/ CoordRangeEnd
    \/ CoordPoll

SpecFetch == InitFetch /\ [][NextFetch]_vars

\* ------------------------------------------- the files of a download alone
\* getMessage from the body fetch to its return, one file operation per step;
\* api holds the tmp/ and cur/ directories of INBOX, the position inside
\* getMessage and the sequence number of the handler
MaxDownloads == 3

FilesIdle ==
    [pc |-> "idle", tmp |-> {}, cur |-> {}, seq |-> 0, uid |-> 0, mid |-> "",
     name |-> <<>>, created |-> FALSE, failed |-> "", err |-> FALSE, calls |-> 0]

InitFiles == InitMain /\ api = FilesIdle

\* tmpFilename: the sequence number and the UID
TmpName(seq, uid) == [seq |-> seq, uid |-> uid, fmd5 |-> <<>>]

\* newFilename: the name in tmp/ and ",FMD5=" with the sum of the body
CurName(tmpName, mid) == [tmpName EXCEPT !.fmd5 = FMD5Suffix(Body(mid))]

\* mutant: the cleanup leaves the file in tmp/
RemoveTmpKept(tmp, name) == tmp

\* os.Remove(tmpPath)
RemoveTmp(tmp, name) == tmp \ {name}

\* getMessage is entered for the next UID; the body arrives or the fetch fails
FetchBody(mid, ok) ==
    /\ api.pc \in {"idle", "returned"} /\ api.calls < MaxDownloads
    /\ api' = IF ok
              THEN [api EXCEPT !.pc = "create", !.uid = api.calls + 1, !.mid = mid,
                               !.seq = @ + 1,
                               !.name = TmpName(api.seq + 1, api.calls + 1),
                               !.created = FALSE, !.failed = "", !.err = FALSE,
                               !.calls = @ + 1]
              ELSE [api EXCEPT !.pc = "returned", !.uid = api.calls + 1, !.mid = mid,
                               !.name = <<>>,
                               !.created = FALSE, !.failed = "body", !.err = TRUE,
                               !.calls = @ + 1]
    /\ UNCHANGED <<mainVars, messages, uids>>

\* os.Create(tmpPath)
CreateTmp(ok) ==
    /\ api.pc = "create"
    /\ api' = IF ok
              THEN [api EXCEPT !.pc = "copy", !.tmp = @ \cup {api.name},
                               !.created = TRUE]
              ELSE [api EXCEPT !.pc = "returned", !.failed = "create", !.err = TRUE]
    /\ UNCHANGED <<mainVars, messages, uids>>

\* io.Copy into the file; on an error the file is closed and removed
CopyBody(ok) ==
    /\ api.pc = "copy"
    /\ api' = IF ok
              THEN [api EXCEPT !.pc = "rename"]
              ELSE [api EXCEPT !.pc = "returned", !.failed = "copy", !.err = TRUE,
                               !.tmp = RemoveTmp(@, api.name)]
    /\ UNCHANGED <<mainVars, messages, uids>>

\* os.Rename(tmpPath, newPath); on an error the file in tmp/ is removed
RenameTmp(ok) ==
    /\ api.pc = "rename"
    /\ api' = IF ok
              THEN [api EXCEPT !.pc = "placed", !.tmp = @ \ {api.name},
                               !.cur = @ \cup {CurName(api.name, api.mid)}]
              ELSE [api EXCEPT !.pc = "returned", !.failed = "rename", !.err = TRUE,
                               !.tmp = RemoveTmp(@, api.name)]
    /\ UNCHANGED <<mainVars, messages, uids>>

\* the rest of getMessage (the index, the store) and its return
FinishDownload(ok) ==
    /\ api.pc = "placed"
    /\ api' = [api EXCEPT !.pc = "returned", !.err = ~ok,
                          !.failed = IF ok THEN "" ELSE "later"]
    /\ UNCHANGED <<mainVars, messages, uids>>

NextFiles ==
    \/ \E mid \in MessageIDs, ok \in BOOLEAN : FetchBody(mid, ok)
    \/ \E ok \in BOOLEAN : CreateTmp(ok)
    \/ \E ok \in BOOLEAN : CopyBody(ok)
    \/ \E ok \in BOOLEAN : RenameTmp(ok)
    \/ \E ok \in BOOLEAN : FinishDownload(ok)

SpecFiles == InitFiles /\ [][NextFiles]_vars

\* the exit status of the process: main ends by returning, after a clean pass
\* and after a logged error alike
ExitCode(pc) == IF pc = "exit" THEN 0 ELSE 0

\* ----------------------------------------------------------------- claims
Stores == {i \in 1..Len(wire) : wire[i].op = "STORE"}
Appends == {i \in 1..Len(wire) : wire[i].op = "APPEND"}
StoredSet(m) == DbMap(m.tags)
CurrentRows(f) == {r \in uids : r.foldername = f /\ r.uidvalidity = srvValidity[f]}

\* C1: within a run every UID STORE and APPEND of the push side comes before the
\* first command of the pull side (LIST, UID FETCH, body fetch), and the pull
\* side has begun only with the update queue closed and empty.
C1_PushBeforePull ==
    /\ \A i, j \in 1..Len(wire) : i < j /\ IsPullCmd(wire[i]) => ~IsPushCmd(wire[j])
    /\ (\E i \in 1..Len(wire) : IsPullCmd(wire[i])) => qClosed /\ Len(queue) = 0

C1_Witness ==
    \E i, j \in 1..Len(wire) : i < j /\ IsPushCmd(wire[i]) /\ wire[j].op = "FETCH"

C4_Original ==
    \A m \in messages :
        /\ StoredSet(m) \cap IgnoredTags = {}
        /\ m.tags # <<>> => <<>> \notin ListToSet(Split(m.tags))

\* C5: no UID STORE carries a tag of ignored_tags or an empty flag list, and the
\* push of an update whose added and removed tags are all ignored issues no UID
\* STORE at all.
C5_NoIgnoredInStore ==
    [][/\ \A i \in 1..Len(wire') : wire'[i].op = "STORE" =>
              /\ ListToSet(wire'[i].tags) \cap IgnoredTags = {}
              /\ Len(wire'[i].tags) > 0
       /\ (/\ pcMain = "push" /\ Len(queue) > 0 /\ queue' = Tail(queue)
           /\ ~Head(queue).info.Created
           /\ ListToSet(Head(queue).info.AddedTags) \subseteq IgnoredTags
           /\ ListToSet(Head(queue).info.RemovedTags) \subseteq IgnoredTags)
          => \A i \in 1..Len(wire') : i > Len(wire) => wire'[i].op # "STORE"]_vars

\* the push of an update that adds only an ignored tag has run: a SELECT of the
\* push side, the tag recorded, and no UID STORE
C5_Witness ==
    /\ pcMain = "push" /\ Stores = {}
    /\ \E i \in 1..Len(wire) : wire[i].op = "SELECT"
    /\ \E m \in messages : TagMDN \in StoredSet(m) /\ m.messageid \in DOMAIN idxTags
                            /\ TagMDN \in idxTags[m.messageid]
    /\ Appends = {}

\* C6 as stated: the flag list of an APPEND holds no tag of ignored_tags.
C6_Original ==
    \A i \in Appends : ListToSet(wire[i].tags) \cap IgnoredTags = {}

\* C7 as stated: no UID STORE and no APPEND carries the tag unread.
C7_Original ==
    \A i \in Stores \cup Appends : TagUnread \notin ListToSet(wire[i].tags)

\* C8 as stated: after a run in which a message was downloaded from both folders,
\* the store holds one messages row for its Message-ID, the uids rows of both
\* downloads reference that row, and no messages row has an empty MessageID.
Downloads(mid) == {file \in cur : file.mid = mid /\ file.uid > 0}
C8_Original ==
    pcMain = "done" =>
        \A mid \in MessageIDs :
            (\A f \in Folders : \E file \in Downloads(mid) : file.folder = f) =>
                /\ Cardinality({m \in messages : m.messageid = mid}) = 1
                /\ \A file \in Downloads(mid) : \E r \in uids, m \in messages :
                       /\ r.foldername = file.folder /\ r.uid = file.uid
                       /\ r.message_id = m.id /\ m.messageid = mid
                /\ ~\E m \in messages : m.messageid = ""

\* C9: when the pull of a folder aborts, the cursor of that folder, in memory
\* and in .imap-uids, is the value it had before the pull.
PullAborted == pcMain = "exit" /\ Len(pullTodo) > 0
C9_CursorKeptOnAbort ==
    PullAborted =>
        /\ lastSeen[Head(pullTodo)] = startCursor
        /\ sidecar[Head(pullTodo)] = startCursor

\* the pull aborted after it had listed, and recorded, a UID above the cursor
C9_Witness ==
    /\ PullAborted
    /\ hwm > startCursor
    /\ \E r \in CurrentRows(Head(pullTodo)) : r.uid > startCursor

\* C10 as stated: at the end of a run, .imap-uids holds the new cursor of every
\* folder whose pull completed without error.
C10_Original ==
    pcMain \in {"done", "exit"} => \A f \in okPulls : sidecar[f] = lastSeen[f]

\* C11 as stated: a run in which the pull of a folder aborted has still pulled
\* every folder of the mailbox (each was selected after the folder listing).
C11_Original ==
    PullAborted =>
        \A f \in Folders : \E i, j \in 1..Len(wire) :
            i < j /\ wire[i].op = "LIST" /\ wire[j].op = "SELECT" /\ wire[j].folder = f

\* C12 as stated: a run that ended because of an error (a failed push update, a
\* failed pull) ends with a non-zero exit code.
C12_Original == pcMain = "exit" => ExitCode(pcMain) # 0

\* C13: the push of an update one of whose bindings carries a UIDVALIDITY other
\* than the one the server reports fails; no UID STORE is issued for that
\* binding, and the store is left as the bindings before it left it (unchanged
\* when the stale binding is the first).
C13_StaleBindingFails ==
    [][(/\ pcMain = "push" /\ Len(queue) > 0 /\ queue' = Tail(queue)
        /\ ~Head(queue).info.Created)
       => LET upd == Head(queue)
              list == upd.info.UIDs
              stale == {k \in 1..Len(list) :
                           srvValidity[list[k].FolderName] # list[k].UIDValidity}
              world == [messages |-> messages, uids |-> uids, srv |-> srv,
                        srvNext |-> srvNext, wire |-> wire, err |-> FALSE]
          IN stale # {} =>
               LET k0 == CHOOSE k \in stale : \A j \in stale : k <= j
                   before == UpdateAll(world, upd, SubSeq(list, 1, k0 - 1))
               IN /\ pcMain' = "exit"
                  /\ messages' = before.messages /\ uids' = before.uids
                  /\ k0 = 1 => messages' = messages /\ uids' = uids /\ srv' = srv
                  /\ \A k \in stale : \A i \in (Len(wire) + 1)..Len(wire') :
                         ~(/\ wire'[i].op = "STORE"
                           /\ wire'[i].folder = list[k].FolderName
                           /\ wire'[i].uid = list[k].UID)]_vars

\* a push has failed on a stale binding: the run ended on the SELECT of the push
\* side, with the update of the message still outstanding
C13_Witness ==
    /\ pcMain = "exit" /\ Len(pullTodo) = 0 /\ Len(wire) > 0
    /\ wire[Len(wire)].op = "SELECT" /\ Stores = {}
    /\ \E r \in uids, m \in messages :
           /\ r.message_id = m.id /\ r.foldername = wire[Len(wire)].folder
           /\ r.uidvalidity # srvValidity[r.foldername]
           /\ m.messageid \in DOMAIN idxTags
           /\ idxTags[m.messageid] # StoredSet(m)

\* C14 as stated: a run whose push met a binding with an outdated UIDVALIDITY
\* has still gone on to the pull phase.
StalePush ==
    \E i \in 1..Len(wire) :
        /\ wire[i].op = "SELECT" /\ \A j \in 1..i : wire[j].op # "LIST"
        /\ \E r \in uids : r.foldername = wire[i].folder
                            /\ r.uidvalidity # srvValidity[r.foldername]
C14_Original ==
    pcMain \in {"exit", "done"} /\ StalePush => \E i \in 1..Len(wire) : wire[i].op = "LIST"

\* C15 as stated: CheckTags, AddMessageSyncInfo with the info it returned and
\* the wanted tags, CheckTags again: the second check reports nothing to add,
\* nothing to remove and Created = false.
C15_Original ==
    api.phase = "rechecked" =>
        /\ api.second.AddedTags = <<>> /\ api.second.RemovedTags = <<>>
        /\ ~api.second.Created

\* C16 as stated: in the run that follows a run stopped part-way (and is no
\* full scan), no server message has two files in cur/ and no file that was
\* downloaded from the server is queued for an APPEND.
C16_Original ==
    faults > 0 /\ pcMain \in {"push", "pull", "fetch", "done"} /\ ~fullScan =>
        /\ \A a, b \in cur : a.uid > 0 /\ a.folder = b.folder /\ a.uid = b.uid => a = b
        /\ \A i \in 1..Len(queue) : queue[i].info.Created => queue[i].Filename.uid = 0

\* C17: every file the fetch path placed in cur/ holds the whole body of its
\* message, and the FMD5 part of its name is the digest of the file's bytes.
C17_FMD5MatchesBytes ==
    \A file \in cur : file.uid > 0 =>
        /\ file.fmd5 = <<MD5Sum(file.bytes)>>
        /\ file.bytes = Body(file.mid)

C17_Witness ==
    \E file \in cur : file.uid > 0 /\ Len(file.bytes) > 2 /\ promoted > 0

\* C18: through every step every uids row references a messages row, and no
\* step removes a messages row.
C18_UidsReferenceMessages ==
    [][/\ \A r \in uids' : \E m \in messages' : m.id = r.message_id
       /\ \A m \in messages : \E n \in messages' :
              n.id = m.id /\ n.messageid = m.messageid]_vars

C18_Witness ==
    \E r1, r2 \in uids : r1.message_id # r2.message_id

\* C19: the store holds at most one messages row per MessageID.
C19_OneRowPerMessageID ==
    \A a, b \in messages : a.messageid = b.messageid => a = b

\* a recorded message was pushed: its row holds the tags of the UID STORE
C19_Witness ==
    \E i \in Stores : \E r \in uids, m \in messages :
        /\ wire[i].item = "+FLAGS.SILENT"
        /\ r.message_id = m.id /\ r.foldername = wire[i].folder /\ r.uid = wire[i].uid
        /\ ListToSet(wire[i].tags) \subseteq StoredSet(m)
        /\ Cardinality(messages) > 1

\* C20 as stated: with no UIDVALIDITY renewed, the cursor a completed folder
\* pull has set is at or above the cursor the folder had before the pull.
C20_Original ==
    /\ pcMain \in {"pull", "done"}
    /\ \A f \in Folders : srvValidity[f] <= Cardinality(Folders)
    => hwm >= startCursor

\* C21 as stated: in a full-scan run that nothing interrupted, with no
\* UIDVALIDITY renewed, no server message has been downloaded a second time:
\* no two files in cur/ come from the same UID of the same folder.
C21_Original ==
    /\ fullScan /\ faults = 0
    /\ \A f \in Folders : srvValidity[f] <= Cardinality(Folders)
    => \A a, b \in cur : a.uid > 0 /\ a.folder = b.folder /\ a.uid = b.uid => a = b

\* C28 as stated: with include non-empty listFolders fails iff an included
\* name is missing on the server and otherwise returns exactly the included
\* names; with include empty it returns every server folder not excluded.
C28_Original ==
    api.fn = "listFolders" =>
        LET include == ListToSet(api.in.include)
            exclude == ListToSet(api.in.exclude)
            server == ListToSet(api.in.server)
            names == ListToSet(api.out.names)
        IN IF include # {}
           THEN /\ api.out.err <=> ~(include \subseteq server)
                /\ ~api.out.err => names = include
           ELSE ~api.out.err /\ names = server \ exclude

\* C29: translateFlags reports seen iff \Seen is among the flags, and its tags
\* are exactly: replied, deleted, draft, flagged for the four system flags,
\* every keyword that has no leading backslash and is not in ignored_tags, and
\* unread when \Seen is missing.
C29_TranslateFlags ==
    api.fn = "translateFlags" =>
        LET sys == {SeenFlag, AnsweredFlag, DeletedFlag, DraftFlag, FlaggedFlag}
            want == {<<"replied">> : x \in api.in \cap {AnsweredFlag}}
                    \cup {<<"deleted">> : x \in api.in \cap {DeletedFlag}}
                    \cup {<<"draft">> : x \in api.in \cap {DraftFlag}}
                    \cup {<<"flagged">> : x \in api.in \cap {FlaggedFlag}}
                    \cup {k \in api.in \ sys : k[1] # "\\" /\ k \notin IgnoredTags}
                    \cup {TagUnread : x \in {SeenFlag} \ api.in}
        IN /\ api.out.seen = (SeenFlag \in api.in)
           /\ api.out.flags = want

C29_Witness ==
    /\ api.fn = "translateFlags"
    /\ {<<"\\", "Recent">>, TagMDN, AnsweredFlag, TagTodo} \subseteq api.in
    /\ SeenFlag \notin api.in
    /\ api.out.flags = {<<"replied">>, TagTodo, TagUnread}

\* C30 as stated: the diff of compareTags is the set difference of the trimmed
\* non-empty tags: added = wanted minus stored, removed = stored minus wanted,
\* no tag in both, no tag twice among the added ones.
C30_Original ==
    api.fn = "compareTags" =>
        LET stored == {TrimSpace(t) : t \in ListToSet(Split(api.in.stored))} \ {<<>>}
            wanted == {TrimSpace(t) : t \in ListToSet(api.in.wanted)} \ {<<>>}
            added == api.out.AddedTags
            removed == api.out.RemovedTags
        IN /\ ListToSet(added) = wanted \ stored
           /\ ListToSet(removed) = stored \ wanted
           /\ ListToSet(added) \cap ListToSet(removed) = {}
           /\ \A i, j \in 1..Len(added) : added[i] = added[j] => i = j

\* C27: a download whose file the index reports as a duplicate Message-ID
\* leaves every tag of every indexed message as it was, and getMessage returns
\* without error unless the step was cut short.
C27_DuplicateKeepsTags ==
    [][(/\ pcMain = "fetch" /\ Len(updateList) > 0 /\ cur' # cur
        /\ \E m \in srv[Head(pullTodo)] :
              m.uid = Head(updateList).UID /\ m.mid \in DOMAIN idxTags)
       => /\ idxTags' = idxTags
          /\ faults' = faults => pcMain' = "fetch"]_vars

\* a duplicate was downloaded: its binding is recorded under the empty Message-ID
C27_Witness ==
    /\ pcMain = "fetch" /\ promoted > 0
    /\ \E m \in messages : m.messageid = ""
    /\ \E a, b \in cur : a.mid = b.mid /\ a # b /\ b.uid > 0

\* the downloads that have just ended without error: the last command on the
\* wire is the body fetch of a message that has one file in cur/
JustDownloaded ==
    IF pcMain = "fetch" /\ Len(wire) > 0 /\ wire[Len(wire)].op = "BODY"
    THEN {d \in [f : {wire[Len(wire)].folder}, m : srv[wire[Len(wire)].folder]] :
             /\ d.m.uid = wire[Len(wire)].uid
             /\ Cardinality({c \in cur : c.mid = d.m.mid}) = 1}
    ELSE {}

StartRows == JoinRows(atStart.messages, atStart.uids)

\* C22 as stated: a message that an earlier run downloaded while it was unseen
\* and that has \Seen on the server now has, once the next run is through, lost
\* the tag unread locally and in the store, and its body was not fetched again.
C22_Original ==
    pcMain = "done" /\ faults = 0 /\ srvValidity = DistinctValidity =>
        \A r \in StartRows :
            (/\ TagUnread \in DbMap(r.m.tags)
             /\ \E m \in srv[r.u.foldername] :
                   /\ m.uid = r.u.uid /\ m.mid \in DOMAIN atStart.tags
                   /\ TagUnread \in atStart.tags[m.mid]
                   /\ SeenFlag \in m.flags /\ TagUnread \notin m.flags)
            => /\ \A m \in srv[r.u.foldername] :
                     m.uid = r.u.uid => TagUnread \notin idxTags[m.mid]
               /\ \A row \in messages :
                     row.id = r.m.id => TagUnread \notin StoredSet(row)
               /\ \A i \in 1..Len(wire) :
                     ~(wire[i].op = "BODY" /\ wire[i].folder = r.u.foldername
                                          /\ wire[i].uid = r.u.uid)

\* C26 as stated: every APPEND the server answered with a UID has its binding
\* in the store, and right after it the messages row of the message holds the
\* pushed tags; an APPEND answered without a UID leaves the store as it was.
C26_Original ==
    /\ \A i \in Appends :
          wire[i].uid # 0 =>
              \E r \in uids : /\ r.foldername = wire[i].folder
                               /\ r.uidvalidity = srvValidity[wire[i].folder]
                               /\ r.uid = wire[i].uid
    /\ (pcMain = "push" /\ Len(wire) > 0 /\ wire[Len(wire)].op = "APPEND"
                        /\ wire[Len(wire)].uid # 0)
       => \E m \in srv[wire[Len(wire)].folder], row \in messages :
              /\ m.uid = wire[Len(wire)].uid /\ row.messageid = m.mid
              /\ StoredSet(row) = ListToSet(wire[Len(wire)].tags)
    /\ (pcMain = "push" /\ Len(wire) = 1 /\ wire[1].op = "APPEND" /\ wire[1].uid = 0)
       => messages = atStart.messages /\ uids = atStart.uids

\* the commands of one kind the current run has issued for one UID
WireFor(op, folder, uid) ==
    {i \in 1..Len(wire) : wire[i].op = op /\ wire[i].folder = folder /\ wire[i].uid = uid}

\* C23 as stated: a message the run found synced with the stored tag set {}
\* and the local tags {todo} has, once the run is through, got exactly one UID
\* STORE, +FLAGS.SILENT (todo), for its binding, its stored tag set is {todo},
\* and its body was not fetched.
C23_Original ==
    /\ pcMain = "done" /\ faults = 0
    /\ \A f \in Folders : srvValidity[f] <= Cardinality(Folders)
    => \A r \in StartRows :
           (/\ DbMap(r.m.tags) = {}
            /\ \E m \in srv[r.u.foldername] : m.uid = r.u.uid
            /\ r.m.messageid \in DOMAIN atStart.tags
            /\ atStart.tags[r.m.messageid] = {TagTodo})
           => /\ Cardinality(WireFor("STORE", r.u.foldername, r.u.uid)) = 1
              /\ \A i \in WireFor("STORE", r.u.foldername, r.u.uid) :
                    wire[i].item = "+FLAGS.SILENT" /\ wire[i].tags = <<TagTodo>>
              /\ \A row \in messages : row.id = r.m.id => StoredSet(row) = {TagTodo}
              /\ WireFor("BODY", r.u.foldername, r.u.uid) = {}

\* the push phase of the current run has an update for the message: the local
\* scan found its tags different from the stored ones, or found it unrecorded
Touched(mid) ==
    /\ mid \in DOMAIN atStart.tags
    /\ NeedsUpdate(CheckTags(atStart.messages, atStart.uids, "", mid,
                             ScanTags(atStart.tags[mid])))

\* C24 as stated: once a run is through, the local tags of a message the push
\* phase of that run had an update for are the ones the run started with: the
\* pull has applied no server flag to it.
C24_Original ==
    pcMain = "done" /\ faults = 0 =>
        \A mid \in DOMAIN atStart.tags : Touched(mid) => idxTags[mid] = atStart.tags[mid]

\* C38 as stated: after a message was downloaded and recorded without error,
\* CheckTagsUID for its folder, UIDVALIDITY and UID reports Created = false and
\* the Message-ID of the message.
C38_Original ==
    \A d \in JustDownloaded :
        LET info == CheckTagsUID(messages, uids, d.f, srvValidity[d.f], d.m.uid, <<>>)
        IN ~info.Created /\ info.MessageID = d.m.mid

\* C39 as stated: a message the push phase APPENDed, the server answering with
\* its UID, has not had its body fetched by the pull phase of the same run.
C39_Original ==
    \A i \in Appends :
        wire[i].uid # 0 => WireFor("BODY", wire[i].folder, wire[i].uid) = {}

\* C40 as stated: in a run of an installation where nothing ever failed, no UID
\* of a folder has received more than one UID STORE +FLAGS.SILENT or more than
\* one UID STORE -FLAGS.SILENT.
C40_Original ==
    \A i, j \in Stores :
        (/\ faults = 0
         /\ wire[i].folder = wire[j].folder /\ wire[i].uid = wire[j].uid
         /\ wire[i].item = wire[j].item) => i = j

\* the listing that has just ended: its folder, its messages, and what the
\* listing loop saw of each
JustListed ==
    IF pcMain = "fetch" /\ Len(wire) > 0 /\ wire[Len(wire)].op = "FETCH"
    THEN {[f |-> wire[Len(wire)].folder, m |-> m] :
             m \in {x \in srv[wire[Len(wire)].folder] : x.uid >= wire[Len(wire)].uid}}
    ELSE {}

ListedSeen(l) == translateFlags(l.m.flags).seen

ListedInfo(l) ==
    CheckTagsUID(messages, uids, l.f, srvValidity[l.f], l.m.uid,
                 SetToList(translateFlags(l.m.flags).flags))

ListedDiff(l) ==
    Len(ListedInfo(l).AddedTags) > 0 \/ Len(ListedInfo(l).RemovedTags) > 0

IntentsFor(l) == {i \in 1..Len(updateList) : updateList[i].UID = l.m.uid}

NoIntent(l) == IntentsFor(l) = {}

FlagDeltaIntent(l) ==
    /\ Cardinality(IntentsFor(l)) = 1
    /\ \A i \in IntentsFor(l) : ~NeedsBody(updateList[i])

DownloadIntent(l) ==
    /\ Cardinality(IntentsFor(l)) = 1
    /\ \A i \in IntentsFor(l) : NeedsBody(updateList[i])

C33_Original == api.writers > 0 => api.readers = 0

\* C34 as stated: when Wrap or WrapRW has returned, on whatever path fn ended,
\* the handle it opened is closed.
C34_Original == api.pc = "idle" => api.readers = 0 /\ api.writers = 0

\* C32 as stated: when the UID FETCH ended with an error and the listing has
\* returned, it returned that error and left the cursor of the folder alone.
C32_Original ==
    (api.coord = "returned" /\ api.plan.fails)
        => api.result = "err" /\ api.cfg[api.mailbox] = 0

\* C36 as stated: under fair scheduling a run that has started ends: main
\* leaves the receive loop and returns.
C36_Original == (~Stopped) ~> Stopped

PushStoppedAt(f) ==
    /\ pcMain = "exit" /\ Len(wire) > 0
    /\ \A i \in 1..Len(wire) : wire[i].op # "LIST"
    /\ wire[Len(wire)].op = "SELECT" /\ wire[Len(wire)].folder = f
    /\ srvValidity[f] > Cardinality(Folders)

\* C37 as stated: when the update of a message with several bindings stopped
\* at a binding with an outdated UIDVALIDITY, the stored tag set of the message
\* is the one the run found, whatever was sent for the bindings before it.
C37_Original ==
    \A r \in JoinRows(messages, uids) :
        (/\ PushStoppedAt(r.u.foldername)
         /\ r.u.uidvalidity # srvValidity[r.u.foldername]
         /\ \E q \in JoinRows(messages, uids) : q.m = r.m /\ q.u # r.u)
        => \E old \in atStart.messages :
              old.messageid = r.m.messageid /\ StoredSet(old) = StoredSet(r.m)

====
